---- MODULE Spec2Model ----
(***************************************************************************)
(* zup: the setup runner's self-healing execution loop.                    *)
(*                                                                         *)
(* Text (commands, program output, answers typed by the user) is a         *)
(* sequence of one-character strings, so that strings.Fields,              *)
(* strings.TrimSpace and strings.ToLower are computed, not assumed.        *)
(* The Go call stack of fixAndRunCommandWithMeta is the variable stack:    *)
(* one frame per invocation, the last frame being the running one.         *)
(***************************************************************************)
EXTENDS Naturals, Sequences, FiniteSets, TLC

VARIABLES
    steps,      \* cfg.Setup: the steps loaded from zup.yaml
    stepIdx,    \* position of runSetup's range loop
    started,    \* the positions executeStep was called for, in the order of the calls
    apiKey,     \* the OPENAI_API_KEY environment variable
    stack,      \* invocations of fixAndRunCommandWithMeta, innermost last
    ret,        \* value returned by the invocation that returned last
    outcomes,   \* what executeStep got back, one entry per finished step
    lastRun,    \* the latest runCommandWithMode call, as it went
    poll,       \* the running waitForBinary call
    logFile,    \* background_command.log exists
    crashed,    \* the process died of a runtime panic
    lastAnswer, \* the latest line read by askYesNo, and what askYesNo made of it
    log         \* history of the current step's loop

vars == <<steps, stepIdx, started, apiKey, stack, ret, outcomes, lastRun, poll, logFile, crashed, lastAnswer, log>>

(***************************************************************************)
(* Bounds of the model.                                                    *)
(***************************************************************************)
\* fixes the user may accept within one step
MaxFixes == 2

(***************************************************************************)
(* Text.                                                                   *)
(***************************************************************************)
Empty == <<>>

WhiteSpace == {" ", "\t", "\n", "\r"}

RECURSIVE TrimLeft(_)
TrimLeft(s) ==
    IF s = Empty THEN Empty
    ELSE IF Head(s) \in WhiteSpace THEN TrimLeft(Tail(s)) ELSE s

RECURSIVE TrimRight(_)
TrimRight(s) ==
    IF s = Empty THEN Empty
    ELSE IF s[Len(s)] \in WhiteSpace THEN TrimRight(SubSeq(s, 1, Len(s) - 1)) ELSE s

TrimSpace(s) == TrimRight(TrimLeft(s))

RECURSIVE FirstField(_)
FirstField(s) ==
    IF s = Empty \/ Head(s) \in WhiteSpace THEN Empty
    ELSE <<Head(s)>> \o FirstField(Tail(s))

RECURSIVE Fields(_)
Fields(s) ==
    LET t == TrimLeft(s)
        f == FirstField(t)
    IN  IF t = Empty THEN <<>>
        ELSE <<f>> \o Fields(SubSeq(t, Len(f) + 1, Len(t)))

LowerChar(c) ==
    CASE c = "Y" -> "y"
      [] c = "E" -> "e"
      [] c = "S" -> "s"
      [] c = "N" -> "n"
      [] OTHER -> c

ToLower(s) == [i \in 1..Len(s) |-> LowerChar(s[i])]

(***************************************************************************)
(* Errors.  An error is its message: the format that built it and the      *)
(* text put into the format.  Nil is Go's nil error.                       *)
(***************************************************************************)
Nil == [kind |-> "nil", text |-> Empty]

ExecError(text) == [kind |-> "exec", text |-> text]

NoBinaryError(command) == [kind |-> "could not determine binary", text |-> command]

NotFoundError(binary) == [kind |-> "binary not found", text |-> binary]

StillNotFoundError(binary) == [kind |-> "binary still not found after fix", text |-> binary]

(***************************************************************************)
(* What the environment can supply: the steps of zup.yaml, the outcome of  *)
(* a child process, the advisor's suggestions, the lines typed by the user.*)
(***************************************************************************)
StepCmds == { <<"a", " ", "x">>, <<" ", "b">>, <<" ">> }

StepMetas == { "note" }

StepModes == { "", "background" }

StepSet == [cmd : StepCmds, meta : StepMetas, mode : StepModes]

\* a configuration of two steps, the second one in background mode
TwoSteps ==
    << [cmd |-> <<"a", " ", "x">>, meta |-> "note", mode |-> ""],
       [cmd |-> <<" ", "b">>, meta |-> "note", mode |-> "background"] >>

Configs == { <<s>> : s \in StepSet } \cup { TwoSteps }

ApiKeys == { "", "sk" }

\* the environments the runs start in: every configuration of one step with
\* and without an API key, the configuration of two steps without one
Environments ==
    { e \in [steps : Configs, apiKey : ApiKeys] : Len(e.steps) > 1 => e.apiKey = "" }

FixCmds == { <<"f">>, Empty }

Answers == { <<"y">>, <<"Y", "E", "S">>, <<"n">>, Empty, <<"y", " ">> }

\* What a bash child can do with the shell line it is given: exit 0 having
\* written on both streams, or exit 1 with a diagnostic that names the
\* line's first word, surrounded by white space, after some output.
ExecOutcomes(shell) ==
    { [exit |-> 0, out |-> <<"o">>,       err |-> <<"w">>],
      [exit |-> 1, out |-> <<"o", "\n">>, err |-> <<" ">> \o FirstField(TrimLeft(shell)) \o <<"\n">>] }

(***************************************************************************)
(* The pure functions of the program.                                      *)
(***************************************************************************)
getBinaryName(cmd) ==
    LET parts == Fields(cmd)
    IN  IF Len(parts) > 0 THEN parts[1] ELSE Empty

\* askYesNo, from the line the scanner read
askYesNo(resp) ==
    LET r == ToLower(resp)
    IN  r = <<"y">> \/ r = <<"y", "e", "s">>

\* faulty variant: the steps after a failed one are left out
NextStepStopOnFailure(idx, n, err) == IF err = Nil THEN idx + 1 ELSE n + 1

\* runSetup: the range loop goes on to the next step, whatever executeStep
\* got back; n is len(cfg.Setup)
NextStep(idx, n, err) == idx + 1

\* executeStep: an unset mode is same-terminal
StepMode(mode) == IF mode = "" THEN "same-terminal" ELSE mode

\* runCommandWithMode: the switch on mode
IsBackground(mode) == mode = "background"

\* faulty variant: the launch is not preceded by the search-path lookup
BackgroundPreconditionNoLookup(command, binary, found) ==
    IF binary = Empty THEN NoBinaryError(command) ELSE Nil

\* runCommandWithMode: the checks made before a background launch.
\* found is the answer of exec.LookPath(binary), asked only for a binary
\* that is not empty.
BackgroundPrecondition(command, binary, found) ==
    IF binary = Empty THEN NoBinaryError(command)
    ELSE IF ~found THEN NotFoundError(binary)
    ELSE Nil

\* faulty variant: the command is launched as it is
BackgroundCmdUnwrapped(command) == command

\* the shell line of a background launch, fmt.Sprintf("nohup %s > ... &")
BackgroundCmd(command) ==
    <<"n", "o", "h", "u", "p", " ">> \o command
        \o <<" ", ">", " ", "background_command.log", " ", "2>&1", " ", "&">>

\* the redirection of the background line creates background_command.log
\* when bash gets to run the line, which is when the launch exits 0
LogWritten(o) == o.exit = 0

BackgroundSuppress == TRUE

ForegroundSuppress == FALSE

\* runCommand: the stdout buffer stays empty when stdout is the terminal
StdoutBuffer(suppressOutput, out) == IF suppressOutput THEN out ELSE Empty

\* faulty variant: the error is the stderr buffer whatever suppressOutput is
runCommandStderrOnly(suppressOutput, o) ==
    IF o.exit # 0 THEN ExecError(o.err) ELSE Nil

\* faulty variant: anything written on stderr counts as a failure
runCommandFailOnStderr(suppressOutput, o) ==
    IF o.exit # 0 \/ o.err # Empty
    THEN IF suppressOutput
         THEN ExecError(TrimSpace(StdoutBuffer(suppressOutput, o.out) \o <<"\n">> \o o.err))
         ELSE ExecError(o.err)
    ELSE Nil

\* runCommand: the error returned for a finished child process
runCommand(suppressOutput, o) ==
    IF o.exit # 0
    THEN IF suppressOutput
         THEN ExecError(TrimSpace(StdoutBuffer(suppressOutput, o.out) \o <<"\n">> \o o.err))
         ELSE ExecError(o.err)
    ELSE Nil

\* faulty variant: the fix inherits the mode of the command it fixes
FixModeInherited(mode) == mode

\* faulty variant: the early return of a successful attempt is missing
SucceededNever(err) == FALSE

\* fixAndRunCommandWithMeta: the test of the attempt's error
Succeeded(err) == err = Nil

\* fixAndRunCommandWithMeta: the mode the fix command is run in
FixMode(mode) == ""

\* faulty variant: the retry is run in the default mode, as the fix is
RetryModeDefault(mode) == ""

\* fixAndRunCommandWithMeta: the mode the command is retried in
RetryMode(mode) == mode

\* faulty variant: the result of the fix is returned, the command not retried
AfterFixNoRetry(fixErr, mode) == "fail"

\* faulty variant: the command is retried whether the fix ran well or not
AfterFixRetryAnyway(fixErr, mode) == IF mode = "background" THEN "poll" ELSE "retry"

\* faulty variant: the poller is run whatever the mode
AfterFixAlwaysPoll(fixErr, mode) == IF fixErr = Nil THEN "poll" ELSE "fail"

\* fixAndRunCommandWithMeta: what follows the return of the fix's loop
AfterFix(fixErr, mode) ==
    IF fixErr = Nil
    THEN IF mode = "background" THEN "poll" ELSE "retry"
    ELSE "fail"

\* faulty variant: the command's own error is returned
FixFailureOwnError(err, fixErr) == err

\* fixAndRunCommandWithMeta: the value returned when the fix's loop failed
FixFailure(err, fixErr) == fixErr

\* faulty variant: a declined fix ends the invocation without an error
DeclinedNoError(err) == Nil

\* fixAndRunCommandWithMeta: the value returned when the user declined
Declined(err) == err

\* faulty variant: the poller waits for the binary of the fix
PollTargetOfFix(command, fix) == getBinaryName(fix)

\* fixAndRunCommandWithMeta: the binary the poller waits for
PollTarget(command, fix) == getBinaryName(command)

PollMaxTries == 10

\* faulty variant: one pass too many
PollContinueOneMore(i, maxTries) == i <= maxTries

\* waitForBinary: the loop condition
PollContinue(i, maxTries) == i < maxTries

(***************************************************************************)
(* State.                                                                  *)
(***************************************************************************)
Frame(command, meta, mode) ==
    [command |-> command, meta |-> meta, mode |-> mode,
     pc |-> "run", err |-> Nil, fix |-> Empty]

NoRet == [set |-> FALSE, err |-> Nil]

Returned(err) == [set |-> TRUE, err |-> err]

NoRun ==
    [called |-> FALSE, command |-> Empty, mode |-> "", binary |-> Empty,
     looked |-> FALSE, found |-> FALSE, executed |-> FALSE, shell |-> Empty,
     suppress |-> FALSE, exit |-> 0, out |-> Empty, errOut |-> Empty,
     wrote |-> FALSE, err |-> Nil, fx |-> FALSE]

NoPoll ==
    [active |-> FALSE, binary |-> Empty, maxTries |-> 0, i |-> 0,
     lookups |-> 0, failed |-> 0, sleeps |-> 0, sleeping |-> FALSE,
     lastFound |-> FALSE, result |-> "none", mark |-> 0]

NoAnswer == [asked |-> FALSE, resp |-> Empty, yes |-> FALSE]

Depth == Len(stack)

Top == stack[Len(stack)]

Pop == SubSeq(stack, 1, Len(stack) - 1)

SetTop(f) == [stack EXCEPT ![Len(stack)] = f]

Running == ~crashed /\ stack # <<>>

\* where the caller of the running invocation waits: line 112 ("fixing"),
\* line 120 ("retrying"), or executeStep ("step")
CalledBy == IF Depth > 1 THEN stack[Depth - 1].pc ELSE "step"

\* the running invocation works, directly or not, for the loop of a fix
InFix == \E j \in 1..(Depth - 1) : stack[j].pc = "fixing"

\* An entry of the history, written by the running invocation: what happened
\* (k), at which depth (d), for which command, mode and meta, called from
\* where (by, fx), with what (x: the shell line run, the fix suggested or
\* asked about, the binary polled), how it went (ok) and the error at hand.
Event(k, x, ok, e) ==
    [k |-> k, d |-> Depth, c |-> Top.command, m |-> Top.mode, meta |-> Top.meta,
     by |-> CalledBy, fx |-> InFix, x |-> x, ok |-> ok, e |-> e]

\* the fixes accepted so far in the current step
Accepted(history) == Cardinality({i \in 1..Len(history) : history[i].k = "ask" /\ history[i].ok})

Init ==
    /\ \E e \in Environments : steps = e.steps /\ apiKey = e.apiKey
    /\ stepIdx = 1
    /\ started = <<>>
    /\ stack = <<>>
    /\ ret = NoRet
    /\ outcomes = <<>>
    /\ lastRun = NoRun
    /\ poll = NoPoll
    /\ logFile = FALSE
    /\ crashed = FALSE
    /\ lastAnswer = NoAnswer
    /\ log = <<>>

(***************************************************************************)
(* runSetup and executeStep.                                               *)
(***************************************************************************)
\* executeStep(step), up to its call of fixAndRunCommandWithMeta
ExecuteStep ==
    /\ ~crashed /\ stack = <<>> /\ ~ret.set
    /\ stepIdx <= Len(steps)
    /\ LET step == steps[stepIdx]
       IN  stack' = <<Frame(step.cmd, step.meta, StepMode(step.mode))>>
    /\ started' = Append(started, stepIdx)
    /\ log' = <<>>
    /\ lastRun' = NoRun
    /\ lastAnswer' = NoAnswer
    /\ poll' = NoPoll
    /\ UNCHANGED <<steps, stepIdx, apiKey, ret, outcomes, logFile, crashed>>

\* executeStep after the loop returned, and the loop of runSetup moving on
StepReturned ==
    /\ ~crashed /\ stack = <<>> /\ ret.set
    /\ outcomes' = Append(outcomes, ret.err)
    /\ stepIdx' = NextStep(stepIdx, Len(steps), ret.err)
    /\ ret' = NoRet
    /\ UNCHANGED <<steps, started, apiKey, stack, lastRun, poll, logFile, crashed, lastAnswer, log>>

(***************************************************************************)
(* fixAndRunCommandWithMeta.                                               *)
(***************************************************************************)
\* the running invocation returns err to its caller
Return(err, history) ==
    /\ stack' = Pop
    /\ ret' = Returned(err)
    /\ log' = Append(history, Event("return", Empty, err = Nil, err))

\* the running invocation calls itself on (command, meta, mode) and waits at pc
Call(pc, command, meta, mode) ==
    stack' = Append(SetTop([Top EXCEPT !.pc = pc]), Frame(command, meta, mode))

\* err := runCommandWithMode(command, mode), and the test of err that follows
Attempt(run) ==
    LET history == Append(log, Event("run", run.shell, run.err = Nil, run.err))
    IN  /\ lastRun' = [run EXCEPT !.fx = InFix]
        /\ logFile' = (logFile \/ run.wrote)
        /\ IF Succeeded(run.err)
           THEN Return(Nil, history)
           ELSE /\ stack' = SetTop([Top EXCEPT !.pc = "advise", !.err = run.err])
                /\ log' = history
                /\ ret' = ret
        /\ UNCHANGED <<steps, started, stepIdx, apiKey, outcomes, poll, crashed, lastAnswer>>

\* runCommandWithMode, case "background"
RunBackground ==
    /\ Running /\ Top.pc = "run"
    /\ IsBackground(Top.mode)
    /\ LET command == Top.command
           binary == getBinaryName(command)
       IN  \E found \in BOOLEAN, o \in ExecOutcomes(BackgroundCmd(command)) :
             LET pre == BackgroundPrecondition(command, binary, found)
                 looked == binary # Empty
                 suppress == BackgroundSuppress
             IN  /\ looked \/ ~found
                 /\ IF pre # Nil
                    THEN Attempt([NoRun EXCEPT !.called = TRUE, !.command = command,
                                    !.mode = Top.mode, !.binary = binary,
                                    !.looked = looked, !.found = found, !.err = pre])
                    ELSE Attempt([called |-> TRUE, command |-> command, mode |-> Top.mode,
                                  binary |-> binary, looked |-> looked, found |-> found,
                                  executed |-> TRUE, shell |-> BackgroundCmd(command),
                                  suppress |-> suppress, exit |-> o.exit,
                                  out |-> o.out, errOut |-> o.err, wrote |-> LogWritten(o),
                                  err |-> runCommand(suppress, o), fx |-> FALSE])

\* runCommandWithMode, the default case
RunForeground ==
    /\ Running /\ Top.pc = "run"
    /\ ~IsBackground(Top.mode)
    /\ \E o \in ExecOutcomes(Top.command) :
         LET suppress == ForegroundSuppress
         IN  Attempt([called |-> TRUE, command |-> Top.command, mode |-> Top.mode,
                      binary |-> Empty, looked |-> FALSE, found |-> FALSE,
                      executed |-> TRUE, shell |-> Top.command,
                      suppress |-> suppress, exit |-> o.exit,
                      out |-> o.out, errOut |-> o.err, wrote |-> FALSE,
                      err |-> runCommand(suppress, o), fx |-> FALSE])

\* fix, explanation := getFixFromOpenAIWithMeta(command, errMsg, meta) has
\* returned: available tells a suggestion of the model from the empty fix of
\* the three error returns
Advised(fix, available) ==
    /\ stack' = SetTop([Top EXCEPT !.pc = "ask", !.fix = fix])
    /\ log' = Append(log, Event("advise", fix, available, Top.err))
    /\ UNCHANGED <<steps, started, stepIdx, apiKey, ret, outcomes, lastRun, poll, logFile, crashed, lastAnswer>>

\* getFixFromOpenAIWithMeta: no API key
AdvisorMissingKey ==
    /\ Running /\ Top.pc = "advise"
    /\ apiKey = ""
    /\ Advised(Empty, FALSE)

\* getFixFromOpenAIWithMeta: CreateChatCompletion returned an error
AdvisorTransportError ==
    /\ Running /\ Top.pc = "advise"
    /\ apiKey # ""
    /\ Advised(Empty, FALSE)

\* getFixFromOpenAIWithMeta: the arguments of the tool call are not JSON
AdvisorInvalidJSON ==
    /\ Running /\ Top.pc = "advise"
    /\ apiKey # ""
    /\ Advised(Empty, FALSE)

\* getFixFromOpenAIWithMeta: a response without a choice or without a tool
\* call: resp.Choices[0].Message.ToolCalls[0] is out of range
AdvisorPanic ==
    /\ Running /\ Top.pc = "advise"
    /\ apiKey # ""
    /\ crashed' = TRUE
    /\ log' = Append(log, Event("panic", Empty, FALSE, Top.err))
    /\ UNCHANGED <<steps, started, stepIdx, apiKey, stack, ret, outcomes, lastRun, poll, logFile, lastAnswer>>

\* getFixFromOpenAIWithMeta: the model's suggestion
AdvisorSuggests ==
    /\ Running /\ Top.pc = "advise"
    /\ apiKey # ""
    /\ \E fix \in FixCmds : Advised(fix, TRUE)

\* askYesNo("Apply this fix?") and, on yes, the call of the loop on the fix
Ask ==
    /\ Running /\ Top.pc = "ask"
    /\ \E resp \in Answers :
         LET yes == askYesNo(resp)
             history == Append(log, Event("ask", Top.fix, yes, Top.err))
         IN  /\ lastAnswer' = [asked |-> TRUE, resp |-> resp, yes |-> yes]
             /\ IF yes
                THEN /\ Accepted(log) < MaxFixes
                     /\ Call("fixing", Top.fix, Top.meta, FixMode(Top.mode))
                     /\ log' = history
                     /\ ret' = ret
                ELSE Return(Declined(Top.err), history)
    /\ UNCHANGED <<steps, started, stepIdx, apiKey, outcomes, lastRun, poll, logFile, crashed>>

\* fixErr has come back from the loop on the fix
FixReturned ==
    /\ Running /\ Top.pc = "fixing" /\ ret.set
    /\ LET next == AfterFix(ret.err, Top.mode)
       IN  CASE next = "fail" ->
                  /\ Return(FixFailure(Top.err, ret.err), log)
                  /\ poll' = poll
             [] next = "poll" ->
                  /\ stack' = SetTop([Top EXCEPT !.pc = "waiting"])
                  /\ poll' = [NoPoll EXCEPT !.active = TRUE,
                                            !.binary = PollTarget(Top.command, Top.fix),
                                            !.maxTries = PollMaxTries,
                                            !.mark = Len(log)]
                  /\ ret' = NoRet
                  /\ log' = log
             [] OTHER ->
                  /\ Call("retrying", Top.command, Top.meta, RetryMode(Top.mode))
                  /\ poll' = poll
                  /\ ret' = NoRet
                  /\ log' = log
    /\ UNCHANGED <<steps, started, stepIdx, apiKey, outcomes, lastRun, logFile, crashed, lastAnswer>>

\* waitForBinary has returned
AfterPoll ==
    /\ Running /\ Top.pc = "waiting" /\ poll.result # "none"
    /\ LET history == Append(log, Event("poll", poll.binary, poll.result = "true", Nil))
       IN  IF poll.result = "true"
           THEN /\ Call("retrying", Top.command, Top.meta, RetryMode(Top.mode))
                /\ log' = history
                /\ ret' = ret
           ELSE Return(StillNotFoundError(getBinaryName(Top.command)), history)
    /\ poll' = NoPoll
    /\ UNCHANGED <<steps, started, stepIdx, apiKey, outcomes, lastRun, logFile, crashed, lastAnswer>>

\* return fixAndRunCommandWithMeta(command, meta, mode): the retry has returned
RetryReturned ==
    /\ Running /\ Top.pc = "retrying" /\ ret.set
    /\ Return(ret.err, log)
    /\ UNCHANGED <<steps, started, stepIdx, apiKey, outcomes, lastRun, poll, logFile, crashed, lastAnswer>>

(***************************************************************************)
(* waitForBinary.                                                          *)
(***************************************************************************)
Polling == Running /\ Top.pc = "waiting" /\ poll.active /\ poll.result = "none"

\* one pass of the loop up to the test of exec.LookPath(binary)
PollLookup ==
    /\ Polling /\ ~poll.sleeping
    /\ PollContinue(poll.i, poll.maxTries)
    /\ \E found \in BOOLEAN :
         poll' = [poll EXCEPT !.lookups = @ + 1,
                              !.lastFound = found,
                              !.failed = IF found THEN @ ELSE @ + 1,
                              !.sleeping = ~found,
                              !.result = IF found THEN "true" ELSE "none"]
    /\ UNCHANGED <<steps, started, stepIdx, apiKey, stack, ret, outcomes, lastRun, logFile, crashed, lastAnswer, log>>

\* time.Sleep(delay) and i++
PollSleep ==
    /\ Polling /\ poll.sleeping
    /\ poll' = [poll EXCEPT !.sleeping = FALSE, !.sleeps = @ + 1, !.i = @ + 1]
    /\ UNCHANGED <<steps, started, stepIdx, apiKey, stack, ret, outcomes, lastRun, logFile, crashed, lastAnswer, log>>

\* the loop ends: return false
PollExhausted ==
    /\ Polling /\ ~poll.sleeping
    /\ ~PollContinue(poll.i, poll.maxTries)
    /\ poll' = [poll EXCEPT !.result = "false"]
    /\ UNCHANGED <<steps, started, stepIdx, apiKey, stack, ret, outcomes, lastRun, logFile, crashed, lastAnswer, log>>

Next ==
    \/ ExecuteStep
    \/ StepReturned
    \/ RunBackground
    \/ RunForeground
    \/ AdvisorMissingKey
    \/ AdvisorTransportError
    \/ AdvisorInvalidJSON
    \/ AdvisorPanic
    \/ AdvisorSuggests
    \/ Ask
    \/ FixReturned
    \/ AfterPoll
    \/ RetryReturned
    \/ PollLookup
    \/ PollSleep
    \/ PollExhausted

Spec == Init /\ [][Next]_vars

(***************************************************************************)
(* Reading the history.                                                    *)
(***************************************************************************)
Idx == 1..Len(log)

Events(k) == {i \in Idx : log[i].k = k}

\* launch attempts of the step's own command, and of commands run for a fix
OrigRuns == {i \in Events("run") : ~log[i].fx}

FixRuns == {i \in Events("run") : log[i].fx}

\* the loop called by executeStep has returned
Finished == stack = <<>> /\ ret.set

(***************************************************************************)
(* C1.  After the advisor reports 'unavailable' the loop goes straight to  *)
(* a terminal failure: whatever follows in the history is the return of    *)
(* the failed command's error, passed up unchanged: whatever the user      *)
(* answers, no command is launched (no fix, no re-run), no further advisor *)
(* call is made and no poll is run after it.                               *)
(* The code does not tell an unavailable advisor from a suggestion: it     *)
(* asks the user about the empty fix and, on yes, runs it.                 *)
(***************************************************************************)
C1_UnavailableIsTerminal ==
    \A i \in Events("advise") :
        ~log[i].ok =>
            \A j \in Idx :
                j > i => /\ log[j].k \in {"ask", "return"}
                         /\ log[j].k = "return" => log[j].e = log[i].e

(***************************************************************************)
(* C2.  The success path.  The step's command fails at its first launch,   *)
(* the advisor suggests a fix, the user accepts, the fix runs well and the *)
(* command runs well afterwards (in background mode: its binary is found   *)
(* by the poller): then the loop returns success after exactly one advisor *)
(* call, one prompt, one execution of the fix and two of the command.      *)
(***************************************************************************)
SuccessPathScenario ==
    /\ log # <<>> /\ log[1].k = "run" /\ ~log[1].ok
    /\ \A i \in Events("advise") : log[i].ok
    /\ \A i \in Events("ask") : log[i].ok
    /\ \A i \in Events("poll") : log[i].ok
    /\ \A i \in FixRuns : log[i].ok
    /\ \A i \in OrigRuns : i # 1 => log[i].ok

C2_SuccessPath ==
    SuccessPathScenario =>
        /\ Cardinality(Events("advise")) <= 1
        /\ Cardinality(FixRuns) <= 1
        /\ Cardinality(OrigRuns) <= 2
        /\ Finished =>
             /\ ret.err = Nil
             /\ Cardinality(Events("advise")) = 1
             /\ Cardinality(Events("ask")) = 1
             /\ Cardinality(FixRuns) = 1
             /\ Cardinality(OrigRuns) = 2

C2_Witness ==
    /\ Finished /\ SuccessPathScenario
    /\ Cardinality(FixRuns) = 1
    /\ ret.err = Nil

(***************************************************************************)
(* C3.  The loop called for a step returns success only when the last      *)
(* launch of the step's own command succeeded, and returns a failure only  *)
(* in a run in which the user declined a fix, or the advisor was           *)
(* unavailable, or the readiness poll of a background step ran out after a *)
(* fix that succeeded.                                                     *)
(***************************************************************************)
PollExhaustedAfterFix ==
    \E i \in Events("poll") :
        /\ ~log[i].ok
        /\ log[i].m = "background"
        /\ i > 1 /\ log[i - 1].k = "return" /\ log[i - 1].ok /\ log[i - 1].by = "fixing"

C3_TerminalOnlyFourWays ==
    Finished =>
        IF ret.err = Nil
        THEN \E i \in OrigRuns :
                /\ log[i].ok
                /\ log[i].c = steps[stepIdx].cmd
                /\ \A j \in Events("run") : j <= i
        ELSE \/ \E i \in Events("ask") : ~log[i].ok
             \/ \E i \in Events("advise") : ~log[i].ok
             \/ PollExhaustedAfterFix

C3_Witness ==
    /\ Finished /\ ret.err # Nil
    /\ PollExhaustedAfterFix
    /\ \A i \in Events("ask") : log[i].ok
    /\ \A i \in Events("advise") : log[i].ok

(***************************************************************************)
(* C4.  Whatever the mode of the step, every command launched for a fix    *)
(* (the fix, its retries, the fixes of a fix) goes the foreground way: the *)
(* command itself is given to the Command Executor, not suppressed, with   *)
(* no lookup of a binary, no nohup line and no log file.                   *)
(***************************************************************************)
C4_FixesRunInForeground ==
    /\ lastRun.called /\ lastRun.fx =>
         /\ lastRun.mode # "background"
         /\ lastRun.executed
         /\ lastRun.shell = lastRun.command
         /\ ~lastRun.suppress
         /\ ~lastRun.looked
         /\ ~lastRun.wrote
    /\ \A i \in FixRuns : log[i].m # "background" /\ log[i].x = log[i].c

C4_Witness ==
    /\ lastRun.called /\ lastRun.fx
    /\ stack # <<>> /\ stack[1].mode = "background"
    /\ \E j, k \in 1..Len(stack) : j < k /\ stack[j].pc = "fixing" /\ stack[k].pc = "fixing"

(***************************************************************************)
(* C5.  A line other than y or yes, in any case of letters, declines the   *)
(* fix, and a declined fix makes the invocation return at once the error   *)
(* of the failed launch that led to the proposal.                          *)
(***************************************************************************)
Affirmative == { <<"y">>, <<"Y">>, <<"y", "e", "s">>, <<"Y", "E", "S">>, <<"Y", "e", "s">> }

C5_DeclineReturnsOwnError ==
    /\ lastAnswer.asked => (lastAnswer.yes <=> lastAnswer.resp \in Affirmative)
    /\ \A i \in Events("ask") :
         ~log[i].ok =>
            /\ i >= 3 /\ i < Len(log)
            /\ log[i - 2].k = "run" /\ ~log[i - 2].ok /\ log[i - 2].d = log[i].d
            /\ log[i - 1].k = "advise" /\ log[i - 1].d = log[i].d
            /\ log[i + 1].k = "return" /\ log[i + 1].d = log[i].d
            /\ log[i + 1].e = log[i - 2].e
            /\ log[i + 1].e # Nil

C5_Witness ==
    \E i \in Events("ask") :
        /\ ~log[i].ok /\ log[i].d = 2 /\ log[i].by = "fixing"
        /\ log[i].e # log[1].e
        /\ lastAnswer.resp = <<"y", " ">>

(***************************************************************************)
(* C6.  When the loop on an accepted fix returns a failure, the invocation *)
(* that asked for the fix returns that failure next, not the error of its  *)
(* own command: no launch, poll or advisor call comes in between.          *)
(***************************************************************************)
C6_FixFailureMasksOriginal ==
    \A i \in Events("return") :
        (~log[i].ok /\ log[i].by = "fixing" /\ i < Len(log)) =>
            /\ log[i + 1].k = "return"
            /\ log[i + 1].d = log[i].d - 1
            /\ log[i + 1].e = log[i].e

\* the error the asking invocation had for its own command is another one
C6_Witness ==
    \E i \in Events("return"), a \in Events("ask") :
        /\ ~log[i].ok /\ log[i].by = "fixing" /\ i < Len(log)
        /\ a < i /\ log[a].d = log[i].d - 1 /\ log[a].ok
        /\ log[a].e # log[i].e
        /\ log[i + 1].e = log[i].e

(***************************************************************************)
(* C7.  After the loop on a fix returned success: a command in background  *)
(* mode is polled for, by the first word of that command, and a command in *)
(* any other mode is launched again at once; the poller runs at no other   *)
(* time; a poll that fails makes the invocation return the 'binary still   *)
(* not found after fix' error without another launch, a poll that succeeds *)
(* is followed by the launch of the same command in the same mode.         *)
(***************************************************************************)
\* the ask of the invocation that waits for the fix's loop returning at i
AskBefore(i) ==
    LET asks == { a \in 1..(i - 1) :
                    log[a].k = "ask" /\ log[a].ok /\ log[a].d = log[i].d - 1 }
    IN  CHOOSE a \in asks : \A b \in asks : b <= a

C7_PollOnlyForBackground ==
    /\ \A i \in Events("return") :
         (log[i].ok /\ log[i].by = "fixing" /\ i < Len(log)) =>
            LET asker == log[AskBefore(i)]
                next == log[i + 1]
            IN  IF asker.m = "background"
                THEN /\ next.k = "poll" /\ next.d = asker.d
                     /\ next.c = asker.c
                     /\ Fields(asker.c) # <<>> => next.x = Fields(asker.c)[1]
                ELSE /\ next.k = "run" /\ next.by = "retrying"
                     /\ next.c = asker.c /\ next.m = asker.m
    /\ \A i \in Events("poll") :
         /\ log[i].m = "background"
         /\ i > 1 /\ log[i - 1].k = "return" /\ log[i - 1].ok /\ log[i - 1].by = "fixing"
         /\ IF log[i].ok
            THEN i < Len(log) =>
                     /\ log[i + 1].k = "run" /\ log[i + 1].by = "retrying"
                     /\ log[i + 1].c = log[i].c /\ log[i + 1].m = log[i].m
            ELSE /\ i < Len(log)
                 /\ log[i + 1].k = "return" /\ log[i + 1].d = log[i].d
                 /\ log[i + 1].e.kind = "binary still not found after fix"
                 /\ log[i + 1].e.text = log[i].x
    /\ (stack # <<>> /\ Top.pc = "waiting") =>
         /\ poll.active /\ Top.mode = "background"
         /\ Fields(Top.command) # <<>> => poll.binary = Fields(Top.command)[1]

\* a poll for a binary that is not the first word of the fix
C7_Witness ==
    \E i \in Events("poll") :
        /\ i < Len(log) /\ ~log[i].ok
        /\ log[i].x # Empty
        /\ log[AskBefore(i - 1)].x # Empty
        /\ log[i].x # Fields(log[AskBefore(i - 1)].x)[1]

(***************************************************************************)
(* C8.  A background command whose first word is empty or is not found on  *)
(* the search path fails before anything is given to the Command Executor  *)
(* and without background_command.log being written; a background command *)
(* reaches the Command Executor only after the lookup of its first word    *)
(* succeeded.                                                              *)
(***************************************************************************)
C8_BackgroundPrecondition ==
    (lastRun.called /\ lastRun.mode = "background") =>
        /\ (Fields(lastRun.command) = <<>> \/ ~lastRun.found) =>
              /\ ~lastRun.executed
              /\ ~lastRun.wrote
              /\ lastRun.err # Nil
        /\ lastRun.executed =>
              /\ lastRun.looked /\ lastRun.found
              /\ lastRun.binary = Fields(lastRun.command)[1]

C8_Witness ==
    /\ lastRun.called /\ lastRun.mode = "background"
    /\ lastRun.looked /\ ~lastRun.found
    /\ ~lastRun.executed /\ ~logFile

(***************************************************************************)
(* C9.  waitForBinary makes at most maxTries lookups; it returns true at   *)
(* the first lookup that succeeds, with no lookup and no sleep after it;   *)
(* it returns false only when maxTries lookups have failed, and never true *)
(* then; it sleeps only after a failed lookup; nothing is launched while   *)
(* it runs.                                                                *)
(***************************************************************************)
C9_WaitForBinary ==
    poll.active =>
        /\ poll.maxTries = 10
        /\ poll.lookups <= poll.maxTries
        /\ poll.sleeps <= poll.failed
        /\ poll.failed <= poll.lookups
        /\ poll.result = "true" =>
              /\ poll.lastFound
              /\ poll.lookups = poll.failed + 1
              /\ poll.sleeps = poll.failed
        /\ poll.result = "false" =>
              /\ poll.failed = poll.maxTries
              /\ poll.lookups = poll.maxTries
        /\ poll.result # "true" => poll.lookups = poll.failed
        /\ Len(log) = poll.mark

C9_Witness ==
    /\ poll.active /\ poll.result = "true"
    /\ poll.failed = 2 /\ poll.sleeps = 2 /\ poll.lookups = 3

(***************************************************************************)
(* C10.  For a command that exits non-zero the error text is, when         *)
(* suppressOutput is true, the buffered stdout, a newline and the buffered *)
(* stderr joined and then trimmed of white space at both ends, and, when   *)
(* suppressOutput is false, the buffered stderr alone, untrimmed.          *)
(***************************************************************************)
C10_ErrorText ==
    (lastRun.executed /\ lastRun.exit # 0) =>
        /\ lastRun.err.kind = "exec"
        /\ lastRun.err.text =
              IF lastRun.suppress
              THEN TrimSpace(lastRun.out \o <<"\n">> \o lastRun.errOut)
              ELSE lastRun.errOut

\* C10 as stated: stdout and stderr joined with nothing between them
C10_ErrorTextPlainConcatenation ==
    (lastRun.executed /\ lastRun.exit # 0) =>
        /\ lastRun.err.kind = "exec"
        /\ lastRun.err.text =
              IF lastRun.suppress
              THEN TrimSpace(lastRun.out \o lastRun.errOut)
              ELSE lastRun.errOut

C10_Witness ==
    /\ lastRun.executed /\ lastRun.exit # 0 /\ lastRun.suppress
    /\ TrimSpace(lastRun.out) # Empty /\ TrimSpace(lastRun.errOut) # Empty
    /\ lastRun.err.text # lastRun.out \o <<"\n">> \o lastRun.errOut


(***************************************************************************)
(* C11.  A command that exits zero makes runCommand return no error,       *)
(* suppressed or not and whatever it wrote on stdout and stderr; an error  *)
(* is returned only for a command that did not exit zero.                  *)
(***************************************************************************)
C11_ZeroExitIsSuccess ==
    lastRun.executed =>
        /\ lastRun.exit = 0 => lastRun.err = Nil
        /\ lastRun.err # Nil => lastRun.exit # 0

C11_Witness ==
    /\ lastRun.executed /\ lastRun.exit = 0 /\ lastRun.suppress
    /\ lastRun.out # Empty /\ lastRun.errOut # Empty
    /\ lastRun.err = Nil


(***************************************************************************)
(* C12.  executeStep is called once for every step, in the order of the    *)
(* configuration; the loop of a step is started only when the loops of all *)
(* steps before it have returned, with nil or with an error; the loop that *)
(* runs is the one of the step last started, on that step's command; when  *)
(* runSetup is through, every step has an outcome.                         *)
(***************************************************************************)
C12_StepsInOrder ==
    /\ \A i \in 1..Len(started) : started[i] = i
    /\ Len(started) <= Len(steps)
    /\ Len(outcomes) <= Len(started) /\ Len(started) <= Len(outcomes) + 1
    /\ stack # <<>> =>
          /\ Len(started) = Len(outcomes) + 1
          /\ stack[1].command = steps[Len(started)].cmd
          /\ stack[1].meta = steps[Len(started)].meta
    /\ (stack = <<>> /\ ~ret.set) => Len(started) = Len(outcomes)
    /\ stepIdx = Len(outcomes) + 1
    /\ (~crashed /\ stack = <<>> /\ ~ret.set /\ ~ENABLED ExecuteStep) =>
          Len(outcomes) = Len(steps)

\* the second step runs after the first one failed
C12_Witness ==
    /\ Len(steps) = 2 /\ Len(started) = 2
    /\ outcomes # <<>> /\ outcomes[1] # Nil
    /\ stack # <<>> /\ lastRun.called


(***************************************************************************)
(* C13.  A background command whose precondition holds is given to the     *)
(* Command Executor as the line 'nohup <command> >                         *)
(* background_command.log 2>&1 &' with suppressOutput = true; in any other *)
(* mode the command itself is given to it with suppressOutput = false.     *)
(***************************************************************************)
NohupLine(command) ==
    <<"n", "o", "h", "u", "p", " ">> \o command
        \o <<" ", ">", " ", "background_command.log", " ", "2>&1", " ", "&">>

C13_LaunchPerMode ==
    lastRun.executed =>
        IF lastRun.mode = "background"
        THEN lastRun.shell = NohupLine(lastRun.command) /\ lastRun.suppress
        ELSE lastRun.shell = lastRun.command /\ ~lastRun.suppress

\* C13 as stated: the background launch is not suppressed either
C13_NeverSuppressed ==
    lastRun.executed =>
        /\ ~lastRun.suppress
        /\ IF lastRun.mode = "background"
           THEN lastRun.shell = NohupLine(lastRun.command)
           ELSE lastRun.shell = lastRun.command

C13_Witness ==
    /\ lastRun.executed /\ lastRun.mode = "background"
    /\ lastRun.found /\ lastRun.suppress
    /\ lastRun.shell # lastRun.command


(***************************************************************************)
(* C14.  Command, mode and meta of an invocation never change: the loop of *)
(* a step runs the step's command, mode and meta; every retry is called    *)
(* with the command, mode and meta of the invocation that retries; every   *)
(* fix is called with the suggested command, with the meta of the          *)
(* invocation it fixes, and with the default mode.  The launch is the      *)
(* first entry an invocation writes and shows its arguments; the advisor   *)
(* call and the prompt that follow it are made for the same command and    *)
(* mode.                                                                   *)
(***************************************************************************)
\* the accepted prompt of the invocation that called the one writing entry i
CallerAsk(i) ==
    LET asks == { a \in 1..(i - 1) :
                    log[a].k = "ask" /\ log[a].ok /\ log[a].d = log[i].d - 1 }
    IN  CHOOSE a \in asks : \A b \in asks : b <= a

C14_ArgumentsPreserved ==
    /\ started # <<>> =>
          LET step == steps[Len(started)]
          IN  /\ stack # <<>> =>
                    /\ stack[1].command = step.cmd
                    /\ stack[1].meta = step.meta
                    /\ stack[1].mode = IF step.mode = "" THEN "same-terminal" ELSE step.mode
              /\ \A i \in Idx : log[i].meta = step.meta
              /\ \A i \in OrigRuns :
                    /\ log[i].c = step.cmd
                    /\ log[i].m = IF step.mode = "" THEN "same-terminal" ELSE step.mode
    /\ \A j \in 2..Len(stack) :
          LET caller == stack[j - 1]
              callee == stack[j]
          IN  /\ caller.pc \in {"fixing", "retrying"}
              /\ callee.meta = caller.meta
              /\ caller.pc = "retrying" =>
                    callee.command = caller.command /\ callee.mode = caller.mode
              /\ caller.pc = "fixing" =>
                    callee.command = caller.fix /\ callee.mode = ""
    /\ \A i \in Events("run") :
          log[i].d > 1 =>
             LET ask == log[CallerAsk(i)]
             IN  /\ log[i].by = "retrying" => log[i].c = ask.c /\ log[i].m = ask.m
                 /\ log[i].by = "fixing" => log[i].c = ask.x /\ log[i].m = ""
    /\ \A i \in Idx :
          log[i].k \in {"advise", "panic", "ask"} =>
             /\ log[i].d = log[i - 1].d
             /\ log[i].c = log[i - 1].c /\ log[i].m = log[i - 1].m

\* the second retry of a background command, two fixes deep
C14_Witness ==
    \E i \in OrigRuns :
        /\ log[i].d = 3 /\ log[i].by = "retrying"
        /\ log[i].m = "background" /\ log[i].meta = "note"


(***************************************************************************)
(* C15.  The advisor is called once for each failed attempt, precondition  *)
(* failures of background mode included, and for nothing else: a failed    *)
(* attempt is followed at once by the advisor call of the same invocation; *)
(* every advisor call follows at once a failed attempt of the very command *)
(* it is asked about and is given that attempt's error; a successful       *)
(* attempt is followed at once by the return of nil, with no advisor call  *)
(* and no prompt.                                                          *)
(***************************************************************************)
C15_AdvisorOncePerFailure ==
    /\ \A i \in Idx :
          /\ (log[i].k = "run" /\ i < Len(log)) =>
                 IF log[i].ok
                 THEN /\ log[i + 1].k = "return" /\ log[i + 1].ok
                      /\ log[i + 1].d = log[i].d
                 ELSE /\ log[i + 1].k \in {"advise", "panic"}
                      /\ log[i + 1].d = log[i].d
          /\ log[i].k \in {"advise", "panic"} =>
                 /\ i > 1
                 /\ log[i - 1].k = "run" /\ ~log[i - 1].ok
                 /\ log[i - 1].d = log[i].d /\ log[i - 1].c = log[i].c
                 /\ log[i].e = log[i - 1].e /\ log[i].e # Nil
    /\ (log # <<>> /\ stack # <<>>) =>
          LET last == log[Len(log)]
          IN  (last.k = "run" /\ Depth = last.d) =>
                 /\ ~last.ok
                 /\ Top.pc = "advise" /\ Top.err = last.e

\* the advisor is asked about a background command whose binary was missing
C15_Witness ==
    \E i \in Events("advise") :
        /\ log[i].m = "background"
        /\ log[i].e.kind = "binary not found"
        /\ \E j \in Events("run") : j > i /\ log[j].ok /\ j < Len(log)


(***************************************************************************)
(* C16.  The user is asked once per suggestion the advisor returned and    *)
(* never otherwise: every prompt follows at once an advisor call that      *)
(* returned an available suggestion, and the prompts are as many as those  *)
(* calls (one less while the prompt of the last call is still to come).    *)
(* The code prompts after every advisor call that returns, an unavailable  *)
(* one included (askYesNo is called whatever getFixFromOpenAIWithMeta      *)
(* returned), so the statement fails.                                      *)
(***************************************************************************)
AvailableAdvice == { i \in Events("advise") : log[i].ok }

C16_PromptOnlyForSuggestion ==
    /\ \A i \in Events("ask") :
          /\ i > 1
          /\ log[i - 1].k = "advise"
          /\ log[i - 1].ok
    /\ Finished => Cardinality(Events("ask")) = Cardinality(AvailableAdvice)


(***************************************************************************)
(* C17.  The length of the loop is bounded by the number of accepted fixes *)
(* and by nothing else.  With N the number of fixes accepted so far, the   *)
(* loop has made at most 2N+1 launch attempts and at most 2N+1 advisor     *)
(* calls, it is at most N+1 invocations deep, it has run at most N polls   *)
(* and no poll looks the binary up more often than its budget of tries.    *)
(* Conversely nothing else stops it: as long as every launch of the        *)
(* original command fails, every fix runs well, every poll finds the       *)
(* binary and the user accepts every suggestion, the loop has not          *)
(* returned.  Termination is stated with a variant: every step of a loop   *)
(* raises LoopMeasure, and LoopMeasure is bounded in terms of N, so a loop *)
(* whose user accepts N fixes ends within MeasureUnit * (9N + 5) steps.    *)
(***************************************************************************)
AdvisorCalls == Events("advise") \cup Events("panic")

NeverEndingScenario ==
    /\ log # <<>>
    /\ Events("panic") = {}
    /\ \A i \in OrigRuns : ~log[i].ok
    /\ \A i \in FixRuns : log[i].ok
    /\ \A i \in Events("ask") : log[i].ok
    /\ \A i \in Events("poll") : log[i].ok

\* the steps an invocation takes between two entries of the history: the
\* passes of a poll, and the call of the retry
SinceLastEvent ==
    IF stack = <<>> THEN 0
    ELSE CASE Top.pc = "waiting" ->
                1 + poll.lookups + poll.sleeps + (IF poll.result = "none" THEN 0 ELSE 1)
           [] Top.pc = "run" -> 2 * PollMaxTries + 3
           [] OTHER -> 0

MeasureUnit == 2 * PollMaxTries + 4

LoopMeasure == MeasureUnit * Len(log) + SinceLastEvent

LoopBounds ==
    /\ Cardinality(Events("run")) <= 2 * Accepted(log) + 1
    /\ Cardinality(AdvisorCalls) <= 2 * Accepted(log) + 1
    /\ Cardinality(Events("poll")) <= Accepted(log)
    /\ Depth <= Accepted(log) + 1
    /\ poll.active => poll.lookups <= poll.maxTries /\ poll.maxTries = PollMaxTries
    /\ NeverEndingScenario => ~Finished
    /\ Cardinality(Events("ask")) <= Cardinality(AdvisorCalls)
    /\ Cardinality(Events("return")) <= 2 * Accepted(log) + 1
    /\ Len(log) <= 9 * Accepted(log) + 4
    /\ LoopMeasure < MeasureUnit * (9 * Accepted(log) + 5)

\* every step of a running loop raises the measure
LoopAdvances == stack # <<>> => LoopMeasure' > LoopMeasure

C17_BoundedOnlyByAcceptedFixes == []LoopBounds /\ [][LoopAdvances]_vars

\* every accepted fix ran well and the command failed again each time
C17_Witness ==
    /\ NeverEndingScenario
    /\ Accepted(log) = MaxFixes
    /\ Cardinality(Events("run")) = 2 * MaxFixes + 1
    /\ Cardinality(AdvisorCalls) = MaxFixes + 1


(***************************************************************************)
(* C18.  The loop is a sequential depth-first recursion.  Only the         *)
(* innermost invocation is active: every invocation below it waits for the *)
(* loop it called (the fix's at line 112, the retry's at line 120), a      *)
(* value is handed back only to a waiting caller, and a poll runs only in  *)
(* the innermost invocation.  From the moment a fix is accepted until the  *)
(* loop of that fix returns, everything that happens happens inside that   *)
(* loop: the command is not launched again meanwhile.  A re-run of the     *)
(* command follows the successful return of the loop of its fix, with only *)
(* a successful poll in between.                                           *)
(***************************************************************************)
\* the return of the loop called after the accepted prompt a, or the end of
\* the history when it has not returned yet
FixLoopEnd(a) ==
    LET rets == { r \in Events("return") : r > a /\ log[r].d = log[a].d + 1 }
    IN  IF rets = {} THEN Len(log) + 1
        ELSE CHOOSE r \in rets : \A q \in rets : r <= q

DepthFirst ==
    /\ \A j \in 1..(Depth - 1) : stack[j].pc \in {"fixing", "retrying"}
    /\ stack # <<>> =>
          /\ Top.pc \in {"run", "advise", "ask", "waiting", "fixing", "retrying"}
          /\ Top.pc \in {"fixing", "retrying"} <=> ret.set
    /\ poll.active => (stack # <<>> /\ Top.pc = "waiting")
    /\ \A a \in Events("ask") :
          log[a].ok =>
             LET end == FixLoopEnd(a)
             IN  /\ \A j \in (a + 1)..(end - 1) :
                        /\ log[j].d > log[a].d
                        /\ log[j].d = log[a].d + 1 => log[j].by = "fixing"
                 /\ end <= Len(log) => log[end].by = "fixing"
                 /\ end > Len(log) => Depth > log[a].d
    /\ \A j \in Events("run") :
          log[j].by = "retrying" =>
             LET a == CallerAsk(j)
                 r == FixLoopEnd(a)
             IN  /\ r < j
                 /\ log[r].ok
                 /\ log[j].c = log[a].c
                 /\ \/ r = j - 1
                    \/ /\ r = j - 2
                       /\ log[j - 1].k = "poll" /\ log[j - 1].ok
                       /\ log[j - 1].d = log[a].d

C18_SequentialDepthFirst == []DepthFirst

\* a background command is run again after the loop of its fix, which needed
\* a fix of its own, has returned and the poll has found the binary
C18_Witness ==
    \E j \in Events("run") :
        /\ log[j].by = "retrying"
        /\ log[j - 1].k = "poll"
        /\ \E i \in Idx : i < j /\ log[i].d > log[j].d

====
